---- MODULE Spec2Model ----
(***************************************************************************)
(* TruthMeter backend: the result cache (CacheService over the SQLite      *)
(* table "analyses"), the analyzer's percentage arithmetic                 *)
(* (OpenAIService.analyzeFactCheck) and the orchestrator                   *)
(* (FactCheckerService.analyzePost).                                       *)
(*                                                                         *)
(* Conventions                                                             *)
(*  - a string is a sequence of one-character strings;                     *)
(*  - a percentage or score is an integer number of tenths (33.3 is 333);  *)
(*  - a timestamp is an integer number of seconds (the resolution of       *)
(*    SQLite's CURRENT_TIMESTAMP and datetime());                          *)
(*  - the table is the sequence of its rows in insertion (rowid) order.    *)
(***************************************************************************)
EXTENDS Integers, Sequences, FiniteSets, TLC

VARIABLES
    cache,      \* rows of table analyses
    now,        \* the wall clock, in seconds
    nextId,     \* number of uuidv4() identifiers handed out so far, plus one
    ret,        \* the last call made on CacheService by a client: the operation, its
                \* argument, the time of the call and the value returned
    req         \* the analyzePost request in flight (or finished)

vars == <<cache, now, nextId, ret, req>>

----------------------------------------------------------------------------
(* Bounds of the model *)

MaxTextLen == 3         \* longest claim text enumerated for normalization
MaxSets == 2            \* rows inserted in one behaviour
MaxLabels == 16          \* sources labelled by the model in one analysis
MaxAnalyses == 1        \* analyses completed in one run of the orchestrator
MaxSources == 1         \* sources found by one search in a run of the orchestrator
MaxSecondTicks == 2     \* one-second clock steps in one behaviour
MaxLongTicks == 1       \* long clock steps in one behaviour

(* Program constants *)

TTL_DAYS == 7
TTL == TTL_DAYS * 24 * 60 * 60      \* '+7 days', in seconds

\* null (a lookup that found nothing), undefined and void
Null == [null |-> TRUE]

----------------------------------------------------------------------------
(* Strings *)

Alphabet == {"a", "A", " ", "\t"}

RECURSIVE StringsOfLen(_)
StringsOfLen(n) ==
    IF n = 0 THEN {<<>>}
    ELSE {Append(s, c) : s \in StringsOfLen(n - 1), c \in Alphabet}

AllStrings == UNION {StringsOfLen(n) : n \in 0..MaxTextLen}

\* String.prototype.toLowerCase
toLowerCase(s) == [i \in 1..Len(s) |-> IF s[i] = "A" THEN "a" ELSE s[i]]

\* the characters matched by \s and stripped by String.prototype.trim
IsWhiteSpace(c) == c \in {" ", "\t"}

RECURSIVE trimStart(_)
trimStart(s) ==
    IF s # <<>> /\ IsWhiteSpace(Head(s)) THEN trimStart(Tail(s)) ELSE s

RECURSIVE trimEnd(_)
trimEnd(s) ==
    IF s # <<>> /\ IsWhiteSpace(s[Len(s)])
    THEN trimEnd(SubSeq(s, 1, Len(s) - 1))
    ELSE s

\* String.prototype.trim
trim(s) == trimEnd(trimStart(s))

\* s.replace(/\s+/g, ' '): every maximal run of white space becomes one space
\* (kept are the characters that are not white space and the first of each run)
replaceWhitespaceRuns(s) ==
    LET kept == SelectSeq([i \in 1..Len(s) |-> i],
                          LAMBDA i : ~IsWhiteSpace(s[i]) \/ i = 1 \/ ~IsWhiteSpace(s[i - 1]))
    IN  [k \in 1..Len(kept) |-> IF IsWhiteSpace(s[kept[k]]) THEN " " ELSE s[kept[k]]]

normalizeContentTextNoLower(text) == replaceWhitespaceRuns(trim(text))

normalizeContentText(text) == replaceWhitespaceRuns(trim(toLowerCase(text)))

----------------------------------------------------------------------------
(* CacheService: the durable store *)

\* datetime(created_at, '+7 days') > datetime('now')
NotExpiredAgeOffByOne(row, t) == row.created_at + TTL >= t

NotExpired(row, t) == row.created_at + TTL > t

\* the object built from a row by get (cached = TRUE) and getShared (FALSE);
\* x || d yields d when x is 0
rowToResult(row, cachedFlag) ==
    [ id |-> row.id,
      contentText |-> row.content_text,
      accuracyScore |-> row.accuracy_score,
      agreementScore |-> row.agreement_score,
      disagreementScore |-> row.disagreement_score,
      neutralScore |-> IF row.neutral_score = 0 THEN 0 ELSE row.neutral_score,
      summary |-> row.summary,
      sources |-> row.sources,
      totalSourcesRetrieved |->
          IF row.total_sources_retrieved = 0 THEN 10 ELSE row.total_sources_retrieved,
      analyzedAt |-> [fmt |-> "sql", t |-> row.created_at],
      cached |-> cachedFlag ]

\* WHERE content_text_normalized = ? AND datetime(created_at, '+7 days') > datetime('now')
Matching(c, t, normalized) ==
    {i \in 1..Len(c) : c[i].content_text_normalized = normalized /\ NotExpired(c[i], t)}

\* ORDER BY created_at DESC LIMIT 1: SQL leaves the order of rows with equal
\* created_at open, so any row with the greatest created_at may be the one returned
FirstByCreatedAtDesc(c, m) ==
    {i \in m : \A j \in m : c[j].created_at <= c[i].created_at}

\* CacheService.get: the set of values the call may return
get(c, t, contentText) ==
    LET normalized == normalizeContentText(contentText)
        m == Matching(c, t, normalized)
    IN  IF m = {} THEN {Null}
        ELSE {rowToResult(c[i], TRUE) : i \in FirstByCreatedAtDesc(c, m)}

\* NaN, as a number of tenths no score can take; better-sqlite3 binds it as a
\* double and SQLite stores a NaN double as NULL
NaN == 0 - 1000000

BindsNull(result) ==
    NaN \in {result.accuracyScore, result.agreementScore,
             result.disagreementScore, result.neutralScore}

\* the INSERT of CacheService.set fails (the call throws) on a duplicate id
\* (id TEXT PRIMARY KEY) or a NULL in a NOT NULL column
setThrowsOnSameKey(c, result) ==
    \/ \E i \in 1..Len(c) : c[i].id = result.id
    \/ \E i \in 1..Len(c) :
          c[i].content_text_normalized = normalizeContentText(result.contentText)
    \/ BindsNull(result)

setThrows(c, result) ==
    \/ \E i \in 1..Len(c) : c[i].id = result.id
    \/ BindsNull(result)

newRowIntegerScores(result, t) ==
    [ id |-> result.id,
      content_text |-> result.contentText,
      content_text_normalized |-> normalizeContentText(result.contentText),
      accuracy_score |-> (result.accuracyScore \div 10) * 10,
      agreement_score |-> (result.agreementScore \div 10) * 10,
      disagreement_score |-> (result.disagreementScore \div 10) * 10,
      neutral_score |-> (result.neutralScore \div 10) * 10,
      summary |-> result.summary,
      sources |-> result.sources,
      total_sources_retrieved |-> result.totalSourcesRetrieved,
      created_at |-> t ]

\* the row inserted: the scores keep their decimals in the INTEGER columns,
\* whose affinity converts only values that are whole numbers
newRow(result, t) ==
    [ id |-> result.id,
      content_text |-> result.contentText,
      content_text_normalized |-> normalizeContentText(result.contentText),
      accuracy_score |-> result.accuracyScore,
      agreement_score |-> result.agreementScore,
      disagreement_score |-> result.disagreementScore,
      neutral_score |-> result.neutralScore,
      summary |-> result.summary,
      sources |-> result.sources,
      total_sources_retrieved |-> result.totalSourcesRetrieved,
      created_at |-> t ]

\* CacheService.set: the table after the call (created_at DEFAULT CURRENT_TIMESTAMP)
setReplacingSameKey(c, result, t) ==
    IF setThrows(c, result) THEN c
    ELSE Append(SelectSeq(c, LAMBDA r :
                    r.content_text_normalized # normalizeContentText(result.contentText)),
                newRow(result, t))

set(c, result, t) ==
    IF setThrows(c, result) THEN c ELSE Append(c, newRow(result, t))

\* CacheService.getShared: WHERE id = ? LIMIT 1, no condition on created_at
getSharedWithTTL(c, t, id) ==
    LET m == {i \in 1..Len(c) : c[i].id = id /\ NotExpired(c[i], t)}
    IN  IF m = {} THEN {Null} ELSE {rowToResult(c[i], FALSE) : i \in m}

getShared(c, t, id) ==
    LET m == {i \in 1..Len(c) : c[i].id = id}
    IN  IF m = {} THEN {Null} ELSE {rowToResult(c[i], FALSE) : i \in m}

\* CacheService.deleteOld: DELETE ... WHERE datetime(created_at, '+7 days') <= datetime('now');
\* returns info.changes
deleteOldKeepingBoundary(c, t) ==
    LET kept == SelectSeq(c, LAMBDA r : r.created_at + TTL >= t)
    IN  [rows |-> kept, changes |-> Len(c) - Len(kept)]

deleteOldOneSecondEarly(c, t) ==
    LET kept == SelectSeq(c, LAMBDA r : ~(r.created_at + TTL <= t + 1))
    IN  [rows |-> kept, changes |-> Len(c) - Len(kept)]

deleteOld(c, t) ==
    LET kept == SelectSeq(c, LAMBDA r : ~(r.created_at + TTL <= t))
    IN  [rows |-> kept, changes |-> Len(c) - Len(kept)]

----------------------------------------------------------------------------
(* Numbers: a JavaScript number that is a multiple of 0.1, as tenths *)

IsNaN(x) == x = NaN

\* x + y and x - y
Plus(x, y) == IF IsNaN(x) \/ IsNaN(y) THEN NaN ELSE x + y

Minus(x, y) == IF IsNaN(x) \/ IsNaN(y) THEN NaN ELSE x - y

\* parseFloat(((count / total) * 100).toFixed(1)); 0 / 0 is NaN.  The quotient is
\* rounded to the nearest tenth; it lies half-way between two tenths only when
\* total is a multiple of 16, and then toFixed rounds the (exact) double up
Percent(count, total) ==
    IF total = 0 THEN NaN ELSE (2000 * count + total) \div (2 * total)

----------------------------------------------------------------------------
(* OpenAIService.analyzeFactCheck *)

Relevance == {"supporting", "contradicting", "neutral"}

Ceil(a, b) == (a + b - 1) \div b

NumBatches == 5

\* const batchSize = Math.ceil(sources.length / 5); the slices of batchSize sources
RECURSIVE BatchesFrom(_, _, _)
BatchesFrom(sources, i, batchSize) ==
    IF i > Len(sources) THEN <<>>
    ELSE <<SubSeq(sources, i, IF i + batchSize - 1 < Len(sources)
                              THEN i + batchSize - 1 ELSE Len(sources))>>
         \o BatchesFrom(sources, i + batchSize, batchSize)

BatchesCappedAtFive(sources) ==
    LET batchSize == IF Len(sources) < NumBatches THEN 1 ELSE Len(sources) \div NumBatches
        all == BatchesFrom(sources, 1, batchSize)
    IN  SubSeq(all, 1, IF Len(all) < NumBatches THEN Len(all) ELSE NumBatches)

Batches(sources) == BatchesFrom(sources, 1, Ceil(Len(sources), NumBatches))

\* batchResults.flatMap(result => result.sources)
RECURSIVE FlatMapSources(_)
FlatMapSources(batchResults) ==
    IF batchResults = <<>> THEN <<>>
    ELSE Head(batchResults).sources \o FlatMapSources(Tail(batchResults))

CountOf(categorized, relevance) ==
    Cardinality({i \in 1..Len(categorized) : categorized[i].relevance = relevance})

analyzerScoresUncorrected(categorized) ==
    LET total == Len(categorized)
    IN  [ agreementScore |-> Percent(CountOf(categorized, "supporting"), total),
          disagreementScore |-> Percent(CountOf(categorized, "contradicting"), total),
          neutralScore |-> Percent(CountOf(categorized, "neutral"), total) ]

\* lines 179-193: the three percentages of all categorized sources; a sum other
\* than 100 is corrected on neutralScore.  (A sum that misses 100 only by the
\* error of the floating-point additions adds less than 0.05 to neutralScore,
\* which toFixed(1) rounds away.)
analyzerScores(categorized) ==
    LET total == Len(categorized)
        agreementScore == Percent(CountOf(categorized, "supporting"), total)
        disagreementScore == Percent(CountOf(categorized, "contradicting"), total)
        neutralScore == Percent(CountOf(categorized, "neutral"), total)
        sum == Plus(Plus(agreementScore, disagreementScore), neutralScore)
    IN  [ agreementScore |-> agreementScore,
          disagreementScore |-> disagreementScore,
          neutralScore |-> IF sum # 1000
                           THEN Plus(neutralScore, Minus(1000, sum))
                           ELSE neutralScore ]

Failed == [ok |-> FALSE]

\* The answers of the language model to the calls of one analyzeFactCheck:
\*   batches[k]   to the categorization of batch k: ok = FALSE when the call
\*                rejects, the completion is empty or JSON.parse throws, else the
\*                parsed object's sources
\*   summary      ok = FALSE when the call rejects or JSON.parse throws,
\*                empty = TRUE for an empty completion, else accuracyScore
\*                (a number, in tenths) and summary
\*   translation  likewise, with the parsed mapping
\* The value returned, or Failed when the catch clause rethrows.
analyzeFactCheck(contentText, sources, llm) ==
    LET batches == Batches(sources)
        categorizationOk == \A k \in 1..Len(batches) : llm.batches[k].ok
        allCategorizedSources == FlatMapSources(SubSeq(llm.batches, 1, Len(batches)))
        scores == analyzerScores(allCategorizedSources)
        summaryData == IF llm.summary.empty
                       THEN [accuracyScore |-> 500, summary |-> "Analysis completed."]
                       ELSE [accuracyScore |-> llm.summary.accuracyScore,
                             summary |-> llm.summary.summary]
        summaryTranslations == IF llm.translation.empty THEN <<>>
                               ELSE llm.translation.translations
    IN  IF ~categorizationOk THEN Failed
        ELSE IF ~llm.summary.ok THEN Failed
        ELSE IF ~llm.translation.ok THEN Failed
        ELSE [ ok |-> TRUE,
               accuracyScore |-> summaryData.accuracyScore,
               agreementScore |-> scores.agreementScore,
               disagreementScore |-> scores.disagreementScore,
               neutralScore |-> scores.neutralScore,
               summary |-> summaryData.summary,
               summaryTranslations |-> summaryTranslations,
               sources |-> allCategorizedSources ]

----------------------------------------------------------------------------
(* FactCheckerService *)

\* A url is [parses, hostname, text]: parses tells whether new URL(url) accepts
\* it, hostname is then its host name and text the rest of it; a url that does
\* not parse is its text alone.

\* the first index at which pat occurs in s, or 0
IndexOf(s, pat) ==
    LET at == {i \in 1..(Len(s) - Len(pat) + 1) : SubSeq(s, i, i + Len(pat) - 1) = pat}
    IN  IF at = {} THEN 0 ELSE CHOOSE i \in at : \A j \in at : i <= j

\* s.replace(pat, rep) with a string pattern: the first occurrence only
replaceFirst(s, pat, rep) ==
    LET i == IndexOf(s, pat)
    IN  IF i = 0 THEN s
        ELSE SubSeq(s, 1, i - 1) \o rep \o SubSeq(s, i + Len(pat), Len(s))

getDomain(url) ==
    IF url.parses
    THEN replaceFirst(url.hostname, <<"w", "w", "w", ".">>, <<>>)
    ELSE url.text

RECURSIVE deduplicateFrom(_, _, _)
deduplicateFrom(sources, i, seenDomains) ==
    IF i > Len(sources) THEN <<>>
    ELSE LET domain == getDomain(sources[i].url)
         IN  IF domain \notin seenDomains
             THEN <<sources[i]>> \o deduplicateFrom(sources, i + 1, seenDomains \cup {domain})
             ELSE deduplicateFrom(sources, i + 1, seenDomains)

deduplicateSources(sources) == deduplicateFrom(sources, 1, {})

DisplayCap == 10

\* sources.filter(s => s.relevance === relevance)
FilterRelevance(sources, relevance) ==
    SelectSeq(sources, LAMBDA src : src.relevance = relevance)

\* xs.slice(0, n)
Slice0(xs, n) == SubSeq(xs, 1, IF Len(xs) < n THEN Len(xs) ELSE n)

\* lines 87-98
displaySources(returnedSources) ==
    Slice0(deduplicateSources(FilterRelevance(returnedSources, "supporting")), DisplayCap)
    \o Slice0(deduplicateSources(FilterRelevance(returnedSources, "contradicting")), DisplayCap)
    \o Slice0(deduplicateSources(FilterRelevance(returnedSources, "neutral")), DisplayCap)

orchestratorScoresOverDisplayed(analysis) ==
    analyzerScores(displaySources(analysis.sources))

\* lines 67-83: a sum other than 100 (and above 0) is corrected on the largest
\* score.  (With a NaN score the sum is NaN and neither comparison is true.)
orchestratorScores(analysis) ==
    LET agreementScore == analysis.agreementScore
        disagreementScore == analysis.disagreementScore
        neutralScore == analysis.neutralScore
        sum == Plus(Plus(agreementScore, disagreementScore), neutralScore)
        diff == Minus(1000, sum)
        unchanged == [ agreementScore |-> agreementScore,
                       disagreementScore |-> disagreementScore,
                       neutralScore |-> neutralScore ]
    IN  IF ~IsNaN(sum) /\ sum # 1000 /\ sum > 0
        THEN IF agreementScore >= disagreementScore /\ agreementScore >= neutralScore
             THEN [unchanged EXCEPT !.agreementScore = agreementScore + diff]
             ELSE IF disagreementScore >= agreementScore /\ disagreementScore >= neutralScore
             THEN [unchanged EXCEPT !.disagreementScore = disagreementScore + diff]
             ELSE [unchanged EXCEPT !.neutralScore = neutralScore + diff]
        ELSE unchanged

buildResultCountingDisplayed(id, contentText, sources, analysis, t) ==
    LET scores == orchestratorScores(analysis)
    IN  [ id |-> id,
          contentText |-> contentText,
          accuracyScore |-> analysis.accuracyScore,
          agreementScore |-> scores.agreementScore,
          disagreementScore |-> scores.disagreementScore,
          neutralScore |-> scores.neutralScore,
          summary |-> analysis.summary,
          summaryTranslations |-> analysis.summaryTranslations,
          sources |-> displaySources(analysis.sources),
          totalSourcesRetrieved |-> Len(displaySources(analysis.sources)),
          analyzedAt |-> [fmt |-> "iso", t |-> t],
          cached |-> FALSE ]

\* lines 105-118: the result built from the analysis
buildResult(id, contentText, sources, analysis, t) ==
    LET scores == orchestratorScores(analysis)
    IN  [ id |-> id,
          contentText |-> contentText,
          accuracyScore |-> analysis.accuracyScore,
          agreementScore |-> scores.agreementScore,
          disagreementScore |-> scores.disagreementScore,
          neutralScore |-> scores.neutralScore,
          summary |-> analysis.summary,
          summaryTranslations |-> analysis.summaryTranslations,
          sources |-> displaySources(analysis.sources),
          totalSourcesRetrieved |-> Len(sources),
          analyzedAt |-> [fmt |-> "iso", t |-> t],
          cached |-> FALSE ]

----------------------------------------------------------------------------
(* The clock *)

\* time passes in steps of one second and of one second less than the TTL
TickSecond ==
    /\ now % (TTL - 1) < MaxSecondTicks
    /\ now' = now + 1
    /\ UNCHANGED <<cache, nextId, ret, req>>

TickLong ==
    /\ now \div (TTL - 1) < MaxLongTicks
    /\ now' = now + (TTL - 1)
    /\ UNCHANGED <<cache, nextId, ret, req>>

----------------------------------------------------------------------------
(* A client of CacheService (the share route, the startup cleanup, the unit *)
(* tests): every call is one synchronous better-sqlite3 statement           *)

NoCall == [op |-> "none", text |-> <<>>, id |-> 0, at |-> 0, out |-> Null]

\* a complete result as analyzePost builds it, with a fresh uuid
SomeResult(id, text, t) ==
    [ id |-> id,
      contentText |-> text,
      accuracyScore |-> 850,
      agreementScore |-> 700,
      disagreementScore |-> 300,
      neutralScore |-> 0,
      summary |-> "Test summary",
      summaryTranslations |-> <<>>,
      sources |-> <<>>,
      totalSourcesRetrieved |-> 1,
      analyzedAt |-> [fmt |-> "iso", t |-> t],
      cached |-> FALSE ]

CallSet(texts, limit) ==
    /\ nextId <= limit
    /\ \E text \in texts :
         /\ cache' = set(cache, SomeResult(nextId, text, now), now)
         /\ ret' = [op |-> "set", text |-> text, id |-> nextId, at |-> now, out |-> Null]
    /\ nextId' = nextId + 1
    /\ UNCHANGED <<now, req>>

CallGet(texts) ==
    /\ \E text \in texts :
         \E out \in get(cache, now, text) :
            ret' = [op |-> "get", text |-> text, id |-> 0, at |-> now, out |-> out]
    /\ UNCHANGED <<cache, now, nextId, req>>

CallGetShared ==
    /\ \E id \in 1..MaxSets :
         \E out \in getShared(cache, now, id) :
            ret' = [op |-> "getShared", text |-> <<>>, id |-> id, at |-> now, out |-> out]
    /\ UNCHANGED <<cache, now, nextId, req>>

CallDeleteOld ==
    /\ cache' = deleteOld(cache, now).rows
    /\ ret' = [op |-> "deleteOld", text |-> <<>>, id |-> 0, at |-> now,
               out |-> [changes |-> deleteOld(cache, now).changes]]
    /\ UNCHANGED <<now, nextId, req>>

----------------------------------------------------------------------------
(* FactCheckerService.analyzePost, one request: the segments between awaits *)

Idle == [ pc |-> "idle", contentText |-> <<>>, search |-> "none", sources |-> <<>>,
          analysis |-> "none", result |-> Null, error |-> "", calls |-> {} ]

NoSourcesError == "No sources found for this content. Please try a different query."
SearchError == "Failed to search sources with Serper. Please try again."
AnalysisError == "Failed to analyze content with AI. Please try again."
StoreError == "SqliteError"

\* lines 44-56: the request after the cache lookup, a hit (done) or a miss
Submitted(contentText) ==
    { IF cached # Null
      THEN [Idle EXCEPT !.pc = "done", !.contentText = contentText, !.result = cached]
      ELSE [Idle EXCEPT !.pc = "searching", !.contentText = contentText,
                        !.search = "pending", !.calls = {"search"}] :
        cached \in get(cache, now, contentText) }

SubmitWithoutLookup(contentText) ==
    /\ req.pc \in {"idle", "done", "error"}
    /\ req' = [Idle EXCEPT !.pc = "searching", !.contentText = contentText,
                           !.search = "pending", !.calls = {"search"}]
    /\ UNCHANGED <<cache, now, nextId, ret>>

\* lines 44-56: the cache lookup; a hit returns, a miss starts the search
Submit(contentText) ==
    /\ req.pc \in {"idle", "done", "error"}
    /\ req' \in Submitted(contentText)
    /\ UNCHANGED <<cache, now, nextId, ret>>

SearchSettlesNoEmptyCheck(outcome) ==
    /\ req.pc = "searching"
    /\ req' = IF ~outcome.ok
              THEN [req EXCEPT !.pc = "error", !.search = "rejected", !.error = SearchError]
              ELSE [req EXCEPT !.pc = "analyzing", !.search = "resolved",
                               !.sources = outcome.sources,
                               !.analysis = "pending", !.calls = @ \cup {"analyze"}]
    /\ UNCHANGED <<cache, now, nextId, ret>>

\* lines 56-65: searchForFactCheck settles with outcome: [ok |-> FALSE] when
\* search throws, else the sources found
SearchSettles(outcome) ==
    /\ req.pc = "searching"
    /\ req' = IF ~outcome.ok
              THEN [req EXCEPT !.pc = "error", !.search = "rejected", !.error = SearchError]
              ELSE IF Len(outcome.sources) = 0
              THEN [req EXCEPT !.pc = "error", !.search = "resolved",
                               !.sources = outcome.sources, !.error = NoSourcesError]
              ELSE [req EXCEPT !.pc = "analyzing", !.search = "resolved",
                               !.sources = outcome.sources,
                               !.analysis = "pending", !.calls = @ \cup {"analyze"}]
    /\ UNCHANGED <<cache, now, nextId, ret>>

AnalyzeSettlesStoringFailures(llm, limit) ==
    /\ req.pc = "analyzing"
    /\ LET analysis == analyzeFactCheck(req.contentText, req.sources, llm)
           partial == [ ok |-> FALSE, accuracyScore |-> 0, agreementScore |-> 0,
                        disagreementScore |-> 0, neutralScore |-> 0, summary |-> "",
                        summaryTranslations |-> <<>>, sources |-> <<>> ]
           result == buildResult(nextId, req.contentText, req.sources,
                                 IF analysis.ok THEN analysis ELSE partial, now)
       IN  /\ analysis.ok => nextId <= limit
           /\ nextId' = nextId + 1
           /\ cache' = set(cache, result, now)
           /\ req' = IF ~analysis.ok
                     THEN [req EXCEPT !.pc = "error", !.analysis = "rejected",
                                      !.error = AnalysisError]
                     ELSE IF setThrows(cache, result)
                     THEN [req EXCEPT !.pc = "error", !.analysis = "resolved",
                                      !.error = StoreError, !.calls = @ \cup {"set"}]
                     ELSE [req EXCEPT !.pc = "done", !.analysis = "resolved",
                                      !.result = result, !.calls = @ \cup {"set"}]
    /\ UNCHANGED <<now, ret>>

\* lines 65-124: what analyzePost does to the cache and to the request once
\* analyzeFactCheck has settled, the model having answered llm.
\* Analyses succeed while fewer than limit identifiers are in use.
Analyzed(llm, limit) ==
    /\ req.pc = "analyzing"
    /\ LET analysis == analyzeFactCheck(req.contentText, req.sources, llm)
           result == buildResult(nextId, req.contentText, req.sources, analysis, now)
       IN  IF ~analysis.ok
           THEN /\ req' = [req EXCEPT !.pc = "error", !.analysis = "rejected",
                                      !.error = AnalysisError]
                /\ UNCHANGED <<cache, nextId>>
           ELSE /\ nextId <= limit
                /\ nextId' = nextId + 1
                /\ cache' = set(cache, result, now)
                /\ req' = IF setThrows(cache, result)
                          THEN [req EXCEPT !.pc = "error", !.analysis = "resolved",
                                           !.error = StoreError, !.calls = @ \cup {"set"}]
                          ELSE [req EXCEPT !.pc = "done", !.analysis = "resolved",
                                           !.result = result, !.calls = @ \cup {"set"}]

\* lines 65-124: analyzeFactCheck settles
AnalyzeSettles(llm, limit) ==
    /\ Analyzed(llm, limit)
    /\ UNCHANGED <<now, ret>>

\* The sources a search may find: distinct urls, some on the same domain
Hosts == << <<"w", "w", "w", ".", "a", ".", "c">>, <<"a", ".", "c">>, <<"b", ".", "c">> >>

Digits == << "1", "2", "3", "4", "5", "6", "7", "8", "9",
             "A", "B", "C", "D", "E", "F", "G", "H", "I", "J", "K" >>

Url(k) == [ parses |-> TRUE,
            hostname |-> Hosts[((k - 1) % Len(Hosts)) + 1],
            text |-> <<"/", Digits[k]>> ]

Found(k) == [url |-> Url(k), title |-> Digits[k], content |-> "", score |-> 100 - (k - 1)]

FoundList(n) == [k \in 1..n |-> Found(k)]

SearchOutcomes(minSources, maxSources) ==
    {Failed} \cup {[ok |-> TRUE, sources |-> FoundList(n)] : n \in minSources..maxSources}

\* The model echoes url and title of a source and gives it a label
Categorized(source, relevance) ==
    [url |-> source.url, title |-> source.title, relevance |-> relevance]

SummaryOk == [ok |-> TRUE, empty |-> FALSE, accuracyScore |-> 850, summary |-> "Summary."]

EmptyCompletion == [ok |-> TRUE, empty |-> TRUE]

TranslationOk ==
    [ok |-> TRUE, empty |-> FALSE, translations |-> [lang \in {"ar", "fr"} |-> "translated"]]

\* every batch answered in full, each source with the label labelOf gives it
AnswerAll(sources, labelOf) ==
    LET batches == Batches(sources)
        indexOf(source) == CHOOSE i \in 1..Len(sources) : sources[i] = source
    IN  [ batches |-> [k \in 1..Len(batches) |->
                         [ok |-> TRUE,
                          sources |-> [i \in 1..Len(batches[k]) |->
                                         Categorized(batches[k][i],
                                                     labelOf[indexOf(batches[k][i])])]]],
          summary |-> SummaryOk,
          translation |-> TranslationOk ]

\* the answers explored with the orchestrator: all sources given one label, no
\* source returned at all, and each call failing or coming back empty
Answers(sources) ==
    LET n == Len(sources)
        full == AnswerAll(sources, [i \in 1..n |-> "supporting"])
    IN  {AnswerAll(sources, [i \in 1..n |-> r]) : r \in Relevance}
        \cup { [full EXCEPT !.batches[1] = Failed],
               [full EXCEPT !.batches = [k \in DOMAIN full.batches |->
                                            [ok |-> TRUE, sources |-> <<>>]]],
               [full EXCEPT !.summary = Failed],
               [full EXCEPT !.summary = EmptyCompletion],
               [full EXCEPT !.translation = Failed],
               [full EXCEPT !.translation = EmptyCompletion] }

\* claim texts that differ in case and white space only, and one that differs
CacheTexts == { <<"a", " ", "a">>, <<"A", "\t", " ", "a">>, <<"a", "a">> }

InitCache ==
    /\ cache = <<>>
    /\ now = 0
    /\ nextId = 1
    /\ ret = NoCall
    /\ req = Idle

NextCache ==
    \/ CallSet(CacheTexts, MaxSets)
    \/ CallGet(CacheTexts)
    \/ CallGetShared
    \/ CallDeleteOld
    \/ TickSecond
    \/ TickLong

SpecCache == InitCache /\ [][NextCache]_vars

\* the same client, storing one claim text out of all strings of the alphabet
InitNorm == InitCache

NextNorm ==
    \/ CallSet(AllStrings, 1)
    \/ CallGet(CacheTexts)
    \/ TickLong

SpecNorm == InitNorm /\ [][NextNorm]_vars

----------------------------------------------------------------------------
(* The orchestrator, one request after the other, with the clock *)

Init == InitCache

Next ==
    \/ \E text \in CacheTexts : Submit(text)
    \/ \E outcome \in SearchOutcomes(0, MaxSources) : SearchSettles(outcome)
    \/ \E llm \in Answers(req.sources) : AnalyzeSettles(llm, MaxAnalyses)
    \/ TickSecond
    \/ TickLong

Spec == Init /\ [][Next]_vars

----------------------------------------------------------------------------
(* The orchestrator on one claim text, the model labelling any number of the *)
(* sources found as supporting, contradicting and neutral                   *)

\* the first s sources supporting, the next c contradicting, the rest neutral
LabelsByCount(n, s, c) ==
    [i \in 1..n |-> IF i <= s THEN "supporting"
                    ELSE IF i <= s + c THEN "contradicting" ELSE "neutral"]

CountedAnswers(sources) ==
    LET n == Len(sources)
    IN  UNION { {AnswerAll(sources, LabelsByCount(n, s, c)) : c \in 0..(n - s)} : s \in 0..n }

ScoreText == <<"a", " ", "a">>

InitScores == InitCache

NextScores ==
    \/ Submit(ScoreText)
    \/ \E outcome \in SearchOutcomes(1, MaxLabels) : SearchSettles(outcome)
    \/ \E llm \in CountedAnswers(req.sources) : AnalyzeSettles(llm, 1)

SpecScores == InitScores /\ [][NextScores]_vars

----------------------------------------------------------------------------
(* Vocabulary of the claims, defined without the operators of the model *)

\* the words of a text: its maximal runs of non-white-space characters, in
\* lower case; two texts are case/white-space variants of one another iff
\* they have the same words
RECURSIVE WordsFrom(_, _, _)
WordsFrom(s, i, word) ==
    IF i > Len(s) THEN (IF word = <<>> THEN <<>> ELSE <<word>>)
    ELSE IF s[i] \in {" ", "\t"}
         THEN (IF word = <<>> THEN <<>> ELSE <<word>>) \o WordsFrom(s, i + 1, <<>>)
         ELSE WordsFrom(s, i + 1, Append(word, IF s[i] = "A" THEN "a" ELSE s[i]))

Words(s) == WordsFrom(s, 1, <<>>)

SameClaim(s, t) == Words(s) = Words(t)

SevenDays == 7 * 86400

Age(row) == now - row.created_at

Fresh(row) == Age(row) < SevenDays

\* C3: cache-key normalization is idempotent, and after set(r) a get with any
\* case/white-space variant of r's claim text returns the entry stored for r
\* while that entry is younger than the TTL
C3_NormalizedLookup ==
    /\ \A t \in AllStrings :
          normalizeContentText(normalizeContentText(t)) = normalizeContentText(t)
    /\ \A i \in 1..Len(cache) :
          /\ normalizeContentText(cache[i].content_text_normalized)
                = cache[i].content_text_normalized
          /\ \A t \in AllStrings :
                (SameClaim(t, cache[i].content_text) /\ Fresh(cache[i]))
                   => \A out \in get(cache, now, t) :
                         /\ out # Null
                         /\ out.id = cache[i].id
                         /\ out.contentText = cache[i].content_text
                         /\ out.cached
    /\ (ret.op = "get" /\ \E i \in 1..Len(cache) :
                             SameClaim(ret.text, cache[i].content_text) /\ Fresh(cache[i]))
          => ret.out # Null /\ SameClaim(ret.out.contentText, ret.text)

\* a get with a variant of the stored text (other case, other white space) has hit
C3_Witness ==
    /\ ret.op = "get"
    /\ ret.out # Null
    /\ ret.out.contentText # ret.text
    /\ Len(ret.out.contentText) # Len(ret.text)
    /\ normalizeContentText(ret.text) # ret.text

\* the rows of the table that a lookup of text at time t is about, and those
\* of them younger than seven days
RowsFor(text) == {i \in 1..Len(cache) : SameClaim(cache[i].content_text, text)}

FreshRowsFor(text, t) ==
    {i \in RowsFor(text) : t - cache[i].created_at < SevenDays}

\* C4: get never returns an entry that is seven days old or older, returns a
\* matching entry when one younger than seven days exists, and returns
\* not-found when no entry matches or every matching entry is expired
C4_TtlBoundary ==
    ret.op = "get" =>
        LET fresh == FreshRowsFor(ret.text, ret.at)
        IN  /\ ret.out # Null => \E i \in fresh : cache[i].id = ret.out.id
            /\ fresh # {} => ret.out # Null
            /\ fresh = {} => ret.out = Null

\* a get made when one matching entry is exactly seven days old and another is
\* one second younger has returned the younger one
C4_Witness ==
    /\ ret.op = "get"
    /\ ret.out # Null
    /\ \E i \in RowsFor(ret.text) : ret.at - cache[i].created_at = SevenDays
    /\ \E i \in RowsFor(ret.text) :
          /\ ret.at - cache[i].created_at = SevenDays - 1
          /\ cache[i].id = ret.out.id

\* C5 (as claimed): among the unexpired entries with the text's normalized
\* key, get returns the one most recently stored by set
C5_MostRecentlyStored ==
    (ret.op = "get" /\ ret.out # Null) =>
        \A i \in FreshRowsFor(ret.text, ret.at) : cache[i].id <= ret.out.id

\* C6: set inserts exactly one new entry and leaves every existing entry as it
\* was, entries with the same normalized text included
C6_SetOnlyAppends ==
    [][ nextId' # nextId =>
          /\ Len(cache') = Len(cache) + 1
          /\ \A i \in 1..Len(cache) : cache'[i] = cache[i]
          /\ cache'[Len(cache')].id = nextId
          /\ cache'[Len(cache')].content_text = ret'.text
          /\ cache'[Len(cache')].created_at = now ]_vars

\* two entries with the same normalized claim text are stored side by side
C6_Witness ==
    /\ ret.op = "set"
    /\ Len(cache) = 2
    /\ cache[1].content_text # cache[2].content_text
    /\ SameClaim(cache[1].content_text, cache[2].content_text)

\* C7 (as claimed): getById returns the entry stored under id in every state
\* reached by set, get, getById, deleteExpired and the passage of time
C7_AlwaysRetrievableById ==
    (ret.op = "getShared" /\ ret.id < nextId) => ret.out # Null

\* C7 (amended): getById returns the entry stored under id, whatever its age,
\* as long as deleteExpired has not removed it; an entry leaves the table only
\* by deleteExpired and only at an age of seven days or more; get returns
\* not-found when every matching entry is expired
C7_RetrievableByIdUntilDeleted ==
    /\ [](ret.op = "getShared" =>
            /\ \A i \in 1..Len(cache) :
                  cache[i].id = ret.id =>
                     /\ ret.out # Null
                     /\ ret.out.id = ret.id
                     /\ ret.out.contentText = cache[i].content_text
                     /\ ret.out.analyzedAt.t = cache[i].created_at
            /\ (\A i \in 1..Len(cache) : cache[i].id # ret.id) => ret.out = Null)
    /\ [](ret.op = "get" /\ FreshRowsFor(ret.text, ret.at) = {} => ret.out = Null)
    /\ [][ \A i \in 1..Len(cache) :
              (\A j \in 1..Len(cache') : cache'[j].id # cache[i].id)
                 => /\ ret'.op = "deleteOld"
                    /\ now - cache[i].created_at >= SevenDays ]_vars

\* getById has returned an entry that was older than seven days at the call
C7_Witness ==
    /\ ret.op = "getShared"
    /\ ret.out # Null
    /\ ret.at - ret.out.analyzedAt.t > SevenDays
    /\ get(cache, ret.at, ret.out.contentText) = {Null}

\* C8: deleteExpired removes every entry of age seven days or more, removes no
\* younger entry, and returns the number of entries it removed
C8_DeleteExpired ==
    [][ (ret'.op = "deleteOld" /\ now' = now) =>
          LET expired == {i \in 1..Len(cache) : now - cache[i].created_at >= SevenDays}
              kept == SelectSeq(cache, LAMBDA r : now - r.created_at < SevenDays)
          IN  /\ cache' = kept
              /\ ret'.out.changes = Cardinality(expired)
              /\ Len(cache') = Len(cache) - Cardinality(expired) ]_vars

\* deleteExpired has removed an entry exactly seven days old and kept one that
\* was one second younger
C8_Witness ==
    /\ ret.op = "deleteOld"
    /\ ret.out.changes = 1
    /\ Len(cache) = 1
    /\ ret.at - cache[1].created_at = SevenDays - 1

----------------------------------------------------------------------------
(* The orchestrator's claims *)

ScoreSum(result) == result.agreementScore + result.disagreementScore + result.neutralScore

RowScoreSum(row) == row.agreement_score + row.disagreement_score + row.neutral_score

\* C1: in every result returned by analyzePost, fresh or served from the
\* cache, and in every cache entry, the three percentages sum to exactly 100.0
C1_ScoresSumTo100 ==
    /\ req.pc = "done" => ScoreSum(req.result) = 1000
    /\ \A i \in 1..Len(cache) : RowScoreSum(cache[i]) = 1000

\* one supporting, one contradicting and four neutral sources round to
\* 16.7 + 16.7 + 66.7 = 100.1; the result, read back from the cache, sums to 100.0
C1_Witness ==
    /\ req.pc = "done"
    /\ req.result.cached
    /\ req.result.totalSourcesRetrieved = 6
    /\ req.result.agreementScore = 167
    /\ req.result.disagreementScore = 167
    /\ ScoreSum(req.result) = 1000

\* the entry a cached result was built from
IsEntry(result, row) ==
    /\ result.id = row.id
    /\ result.contentText = row.content_text
    /\ result.accuracyScore = row.accuracy_score
    /\ result.agreementScore = row.agreement_score
    /\ result.disagreementScore = row.disagreement_score
    /\ result.neutralScore = row.neutral_score
    /\ result.summary = row.summary
    /\ result.sources = row.sources

\* C2: when the cache holds a matching entry younger than seven days,
\* analyzePost returns that entry with cached = true, calls neither the
\* retriever nor the analyzer and writes nothing; a result produced on a miss
\* has cached = false
C2_CacheHitShortCircuits ==
    /\ [](req.pc = "done" =>
            IF req.result.cached
            THEN req.calls = {} /\ req.search = "none" /\ req.analysis = "none"
            ELSE req.calls = {"search", "analyze", "set"})
    /\ [][ (req' # req /\ req.pc \in {"idle", "done", "error"}) =>
              LET fresh == FreshRowsFor(req'.contentText, now)
              IN  IF fresh # {}
                  THEN /\ req'.pc = "done"
                       /\ req'.result.cached
                       /\ \E i \in fresh : IsEntry(req'.result, cache[i])
                       /\ cache' = cache
                       /\ nextId' = nextId
                  ELSE req'.pc = "searching" ]_vars

\* a request whose text differs in case and white space from the stored one
\* was served from the cache
C2_Witness ==
    /\ req.pc = "done"
    /\ req.result.cached
    /\ req.calls = {}
    /\ req.contentText # req.result.contentText

\* C9: when the search returns no source, analyzePost fails with the
\* no-sources error without calling the analyzer and without a cache write
C9_NoSourcesFound ==
    /\ []((req.search = "resolved" /\ Len(req.sources) = 0) =>
            /\ req.pc = "error"
            /\ req.error = NoSourcesError
            /\ req.calls = {"search"}
            /\ req.analysis = "none")
    /\ [][ (req'.search = "resolved" /\ Len(req'.sources) = 0) =>
              cache' = cache /\ nextId' = nextId ]_vars

\* a search has returned no source while the cache held an entry
C9_Witness ==
    /\ req.pc = "error"
    /\ req.search = "resolved"
    /\ req.sources = <<>>
    /\ Len(cache) = 1

\* C10: a request whose search or analysis fails ends in an error and writes
\* nothing to the cache; the only step that changes the cache is the one that
\* completes a successful analysis, and it appends that complete result
C10_FailuresCacheNothing ==
    /\ []((req.search = "rejected" \/ req.analysis = "rejected") =>
            /\ req.pc = "error"
            /\ req.error \in {SearchError, AnalysisError}
            /\ "set" \notin req.calls
            /\ req.result = Null)
    /\ [][ req'.pc \in {"searching", "analyzing", "error"} => cache' = cache ]_vars
    /\ [][ cache' # cache =>
              /\ req.pc = "analyzing"
              /\ req'.pc = "done"
              /\ req'.analysis = "resolved"
              /\ Len(cache') = Len(cache) + 1
              /\ \A i \in 1..Len(cache) : cache'[i] = cache[i]
              /\ IsEntry(req'.result, cache'[Len(cache')])
              /\ RowScoreSum(cache'[Len(cache')]) = 1000 ]_vars

\* an analysis has failed while the cache held an entry
C10_Witness ==
    /\ req.pc = "error"
    /\ req.analysis = "rejected"
    /\ Len(cache) = 1

----------------------------------------------------------------------------
(* SerperService (services/factChecker.ts lines 262-428).  A search call is
   held in ret: the answer of each page request once it has settled, and the
   value the call returned. *)

MaxPages == 2
MaxPageLen == 2

ResultsPerPage == 10
PageCap == 10

Pending == [kind |-> "pending"]

Min(a, b) == IF a < b THEN a ELSE b

\* what the provider lists: a link seen with and without a snippet, and another
Organic ==
    { [link |-> Url(1), title |-> "1", hasSnippet |-> TRUE, snippet |-> "s"],
      [link |-> Url(1), title |-> "1", hasSnippet |-> FALSE, snippet |-> ""],
      [link |-> Url(2), title |-> "2", hasSnippet |-> TRUE, snippet |-> "s"] }

OrganicLists == UNION { [1..n -> Organic] : n \in 1..MaxPageLen }

\* what a page request can come to: fetch rejects, a status that is not ok, a
\* body without organic results, and a body with some
PageResponses ==
    { [kind |-> "network"], [kind |-> "http"], [kind |-> "empty"] }
    \cup { [kind |-> "ok", organic |-> o] : o \in OrganicLists }

\* lines 277-317: any failure is caught and becomes an empty page
searchPage(response, page) ==
    IF response.kind \in {"network", "http", "empty"} THEN <<>>
    ELSE [ i \in 1..Len(response.organic) |->
             [ url |-> response.organic[i].link,
               title |-> response.organic[i].title,
               content |-> IF response.organic[i].hasSnippet
                           THEN response.organic[i].snippet ELSE "",
               score |-> 100 - ((page - 1) * 10 + (i - 1)) ] ]

\* pageResults.flat()
RECURSIVE Flat(_)
Flat(pageResults) ==
    IF pageResults = <<>> THEN <<>>
    ELSE Head(pageResults) \o Flat(Tail(pageResults))

RECURSIVE uniqueFrom(_, _, _)
uniqueFrom(allResults, i, seenUrls) ==
    IF i > Len(allResults) THEN <<>>
    ELSE IF allResults[i].url \notin seenUrls
         THEN <<allResults[i]>> \o uniqueFrom(allResults, i + 1, seenUrls \cup {allResults[i].url})
         ELSE uniqueFrom(allResults, i + 1, seenUrls)

numPagesFor(maxResults) == Min(Ceil(maxResults, ResultsPerPage), PageCap)

searchAbortedByFailingPage(responses, maxResults) ==
    LET pageResults == [p \in 1..Len(responses) |-> searchPage(responses[p], p)]
    IN  IF \E p \in 1..Len(responses) : responses[p].kind \in {"network", "http"}
        THEN Failed
        ELSE [ok |-> TRUE, sources |-> Slice0(uniqueFrom(Flat(pageResults), 1, {}), maxResults)]

searchWithoutDedup(responses, maxResults) ==
    LET pageResults == [p \in 1..Len(responses) |-> searchPage(responses[p], p)]
    IN  [ok |-> TRUE, sources |-> Slice0(Flat(pageResults), maxResults)]

\* lines 339-359, once every page request has settled
search(responses, maxResults) ==
    LET pageResults == [p \in 1..Len(responses) |-> searchPage(responses[p], p)]
        allResults == Flat(pageResults)
        uniqueResults == uniqueFrom(allResults, 1, {})
    IN  [ok |-> TRUE, sources |-> Slice0(uniqueResults, maxResults)]

\* the maxResults explored: one and two results, and the least number that
\* needs p pages
MaxResultsChoices == {1, 2} \cup {ResultsPerPage * (p - 1) + 1 : p \in 1..MaxPages}

SearchInFlight == ret.op = "search" /\ ret.out = Null

\* lines 323-337: the page requests are sent
CallSearch(maxResults) ==
    /\ ~SearchInFlight
    /\ ret' = [ op |-> "search", maxResults |-> maxResults,
                pages |-> [p \in 1..numPagesFor(maxResults) |-> Pending],
                out |-> Null ]
    /\ UNCHANGED <<cache, now, nextId, req>>

\* a page request settles, in any order
PageSettles(p, response) ==
    /\ SearchInFlight
    /\ p \in DOMAIN ret.pages
    /\ ret.pages[p] = Pending
    /\ ret' = [ret EXCEPT !.pages[p] = response]
    /\ UNCHANGED <<cache, now, nextId, req>>

\* line 339 on: Promise.all has resolved
SearchReturns ==
    /\ SearchInFlight
    /\ \A p \in DOMAIN ret.pages : ret.pages[p] # Pending
    /\ ret' = [ret EXCEPT !.out = search(ret.pages, ret.maxResults)]
    /\ UNCHANGED <<cache, now, nextId, req>>

InitSearch == InitCache

NextSearch ==
    \/ \E maxResults \in MaxResultsChoices : CallSearch(maxResults)
    \/ \E p \in 1..MaxPages, response \in PageResponses : PageSettles(p, response)
    \/ SearchReturns

SpecSearch == InitSearch /\ [][NextSearch]_vars

SearchReturned == ret.op = "search" /\ ret.out # Null

PageFailed(response) == response.kind \in {"network", "http"}

\* C11: a search whose every page request failed ends in an error, not in a
\* list of sources
C11_AllPagesFailedRejects ==
    (SearchReturned /\ \A p \in DOMAIN ret.pages : PageFailed(ret.pages[p]))
        => ~ret.out.ok

----------------------------------------------------------------------------
(* OpenAIService.analyzeFactCheck on its own: ret holds the call, the answers
   the language model gave and the value returned. *)

MaxAnalyzed == 3

\* the completion of a call that is not JSON: JSON.parse throws
Unparsable == [ok |-> FALSE, unparsable |-> TRUE]

\* accuracy scores (in tenths) a summary completion may carry
AccuracyAnswers == {0 - 50, 0, 850, 1000, 1500}

SummaryAnswers ==
    {[SummaryOk EXCEPT !.accuracyScore = a] : a \in AccuracyAnswers}
    \cup {Failed, EmptyCompletion}

TranslationAnswers == {TranslationOk, Failed, Unparsable, EmptyCompletion}

\* what a categorization call that fails comes to: the call rejects, the
\* completion is empty (line 141 throws) or it is not JSON
BatchFailures == {Failed, Unparsable, [ok |-> FALSE, empty |-> TRUE]}

\* every split of the sources into the three labels, with every answer to the
\* summary and to the translation call, and with one batch call failing
AnalyzerAnswers(sources) ==
    { [labelled EXCEPT !.summary = summary, !.translation = translation] :
        labelled \in CountedAnswers(sources),
        summary \in SummaryAnswers,
        translation \in TranslationAnswers }
    \cup { [AnswerAll(sources, [i \in 1..Len(sources) |-> "supporting"])
              EXCEPT !.batches[k] = failure] :
             k \in 1..Len(Batches(sources)), failure \in BatchFailures }

CallAnalyzeFactCheck(sources, llm) ==
    /\ ret = NoCall
    /\ ret' = [ op |-> "analyzeFactCheck", sources |-> sources, llm |-> llm,
                out |-> analyzeFactCheck(ScoreText, sources, llm) ]
    /\ UNCHANGED <<cache, now, nextId, req>>

InitAnalyzer == InitCache

NextAnalyzer ==
    \E n \in 1..MaxAnalyzed :
        \E llm \in AnalyzerAnswers(FoundList(n)) : CallAnalyzeFactCheck(FoundList(n), llm)

SpecAnalyzer == InitAnalyzer /\ [][NextAnalyzer]_vars

AnalyzerCalled == ret.op = "analyzeFactCheck"

\* the categorization and the summary of the call in ret went through
AnalyzedUpToTranslation ==
    /\ AnalyzerCalled
    /\ \A k \in DOMAIN ret.llm.batches : ret.llm.batches[k].ok
    /\ ret.llm.summary.ok

\* C12: when the translation call rejects or answers with text that does not
\* parse, analyzeFactCheck still returns the analysis, with an empty mapping
\* of translations
C12_TranslationFailureTolerated ==
    (AnalyzedUpToTranslation /\ ~ret.llm.translation.ok)
        => (ret.out.ok /\ ret.out.summaryTranslations = <<>>)

----------------------------------------------------------------------------
(* The display list of analyzePost (lines 87-98) on its own: ret holds the
   sources the analyzer returned and the list displayed. *)

MaxShort == 2
MaxDistinct == 11

Letters == <<"a", "b", "d", "e", "f", "g", "h", "i", "j", "k", "l", "m", "n">>

WwwDot == <<"w", "w", "w", ".">>

HostOf(k) == <<Letters[k], ".", "c">>

\* a.c, www.a.c, awww.c and www.awww.c, and a url that new URL() rejects
ShortUrls ==
    { [parses |-> TRUE, hostname |-> HostOf(1), text |-> <<"/">>],
      [parses |-> TRUE, hostname |-> WwwDot \o HostOf(1), text |-> <<"/">>],
      [parses |-> TRUE, hostname |-> <<"a">> \o WwwDot \o <<"c">>, text |-> <<"/">>],
      [parses |-> TRUE, hostname |-> WwwDot \o <<"a">> \o WwwDot \o <<"c">>, text |-> <<"/">>],
      [parses |-> FALSE, hostname |-> <<>>, text |-> HostOf(1)] }

ShortSources ==
    { [url |-> u, relevance |-> r] : u \in ShortUrls, r \in {"supporting", "neutral"} }

ShortLists == UNION { [1..n -> ShortSources] : n \in 0..MaxShort }

\* n sources of n domains, all with one label
LongList(n, r) ==
    [k \in 1..n |-> [url |-> [parses |-> TRUE, hostname |-> HostOf(k), text |-> <<"/">>],
                     relevance |-> r]]

LongLists == {LongList(n, r) : n \in 0..MaxDistinct, r \in Relevance}

\* the analyzer's output: each source carries its position as its title
Returned(list) ==
    [i \in 1..Len(list) |-> [url |-> list[i].url, title |-> i, relevance |-> list[i].relevance]]

CallDisplay(returnedSources) ==
    /\ ret = NoCall
    /\ ret' = [ op |-> "display", sources |-> returnedSources,
                out |-> displaySources(returnedSources) ]
    /\ UNCHANGED <<cache, now, nextId, req>>

InitDisplay == InitCache

NextDisplay ==
    \E short \in ShortLists, long \in LongLists : CallDisplay(Returned(short \o long))

SpecDisplay == InitDisplay /\ [][NextDisplay]_vars

\* the domain of a source as the claim words it: the host name without a
\* leading "www." (the url itself when it has no host name)
LeadingWwwStripped(h) ==
    IF Len(h) >= 4 /\ SubSeq(h, 1, 4) = <<"w", "w", "w", ".">>
    THEN SubSeq(h, 5, Len(h)) ELSE h

DomainOf(source) ==
    IF source.url.parses THEN LeadingWwwStripped(source.url.hostname) ELSE source.url.text

Displayed(r) == {i \in 1..Len(ret.out) : ret.out[i].relevance = r}

\* whether the source is the first of its category and domain in the input
FirstOfItsDomain(source) ==
    \E i \in 1..Len(ret.sources) :
        /\ ret.sources[i] = source
        /\ \A j \in 1..(i - 1) :
              ~(ret.sources[j].relevance = source.relevance
                /\ DomainOf(ret.sources[j]) = DomainOf(source))

\* C13: in the displayed sources no two of one category share a domain, the
\* one kept for a domain is the first of that category in the analyzer's
\* order, and a category holds at most ten
C13_OnePerDomainPerCategory ==
    ret.op = "display" =>
        \A r \in Relevance :
            /\ \A i, j \in Displayed(r) :
                  i # j => DomainOf(ret.out[i]) # DomainOf(ret.out[j])
            /\ \A i \in Displayed(r) : FirstOfItsDomain(ret.out[i])
            /\ Cardinality(Displayed(r)) <= 10

----------------------------------------------------------------------------
(* The search claims, worded on what the pages listed *)

\* the places <<page, position>> at which the provider listed a result
Occurrences ==
    { <<p, i>> \in (DOMAIN ret.pages) \X (1..MaxPageLen + 1) :
        ret.pages[p].kind = "ok" /\ i <= Len(ret.pages[p].organic) }

Listed(o) == ret.pages[o[1]].organic[o[2]]

\* page-then-position order
Precedes(o1, o2) == o1[1] < o2[1] \/ (o1[1] = o2[1] /\ o1[2] < o2[2])

FirstOccurrences ==
    { o \in Occurrences :
        \A o2 \in Occurrences : Listed(o2).link = Listed(o).link => ~Precedes(o2, o) }

\* the result is what the provider listed at o
ResultOf(result, o) ==
    /\ result.url = Listed(o).link
    /\ result.title = Listed(o).title
    /\ result.content = (IF Listed(o).hasSnippet THEN Listed(o).snippet ELSE "")

\* C14: search returns no url twice, keeps for each url its first occurrence
\* in page-then-position order, keeps that order, and returns the first
\* maxResults of them and no more
C14_UniqueUrlsFirstSeen ==
    SearchReturned =>
        LET out == ret.out.sources
        IN  /\ ret.out.ok
            /\ \A k, l \in 1..Len(out) : k # l => out[k].url # out[l].url
            /\ \A k \in 1..Len(out) : \E o \in FirstOccurrences : ResultOf(out[k], o)
            /\ \A k, l \in 1..Len(out) :
                  k < l => \E o1, o2 \in FirstOccurrences :
                              /\ ResultOf(out[k], o1)
                              /\ ResultOf(out[l], o2)
                              /\ Precedes(o1, o2)
            /\ Len(out) <= ret.maxResults
            /\ Len(out) = Min(Cardinality(FirstOccurrences), ret.maxResults)

\* a url listed on both pages, with and without a snippet, was returned once,
\* as the first page listed it, followed by another url
C14_Witness ==
    /\ SearchReturned
    /\ Len(ret.pages) = 2
    /\ \E o1, o2 \in Occurrences :
          /\ o1[1] = 1 /\ o2[1] = 2
          /\ Listed(o1).link = Listed(o2).link
          /\ Listed(o1).hasSnippet # Listed(o2).hasSnippet
          /\ ResultOf(ret.out.sources[1], o1)
    /\ Len(ret.out.sources) = 2

\* the pages of the search in ret, the failing ones taken as listing nothing
SucceededPages ==
    [p \in DOMAIN ret.pages |->
        IF ret.pages[p].kind = "ok" THEN ret.pages[p].organic ELSE <<>>]

\* the urls the pages that succeeded listed
SucceededLinks ==
    { SucceededPages[p][i].link : <<p, i>> \in
        { o \in (DOMAIN ret.pages) \X (1..MaxPageLen + 1) : o[2] <= Len(SucceededPages[o[1]]) } }

SomePageFailed == \E p \in DOMAIN ret.pages : PageFailed(ret.pages[p])

\* C21: whichever page requests fail (a status that is not ok, or a network
\* error), search does not throw; it returns only once every page request has
\* settled, and what it returns are the urls of the pages that succeeded, each
\* once, up to maxResults of them
C21_FailingPagesAreEmptyPages ==
    /\ [](SearchReturned =>
            /\ ret.out.ok
            /\ \A p \in DOMAIN ret.pages : ret.pages[p] # Pending
            /\ LET out == ret.out.sources
               IN  /\ {out[k].url : k \in 1..Len(out)} \subseteq SucceededLinks
                   /\ Cardinality({out[k].url : k \in 1..Len(out)}) = Len(out)
                   /\ Len(out) = Min(Cardinality(SucceededLinks), ret.maxResults)
                   /\ (\A p \in DOMAIN ret.pages : ret.pages[p].kind # "ok") => out = <<>>)
    /\ [][(SearchInFlight /\ SearchReturned') =>
            \A p \in DOMAIN ret.pages : ret.pages[p] # Pending]_vars

\* the first page request failed, the second listed two urls, and both were
\* returned
C21_Witness ==
    /\ SearchReturned
    /\ Len(ret.pages) = 2
    /\ PageFailed(ret.pages[1])
    /\ ret.pages[2].kind = "ok"
    /\ ret.out.ok
    /\ Len(ret.out.sources) = 2

----------------------------------------------------------------------------
(* The analyze route (routes/analyze.ts lines 8-39): ret holds the request
   body, the text handed to analyzePost and the response. *)

MaxPad == 1

MinLength == 10
MaxLength == 2000

Repeat(c, n) == [i \in 1..n |-> c]

\* texts of n characters between lead and trail blanks, with a blank inside
\* when inner is set
PaddedText(lead, n, trail, inner) ==
    Repeat(" ", lead)
    \o [i \in 1..n |-> IF inner /\ i = 2 /\ n > 2 THEN " " ELSE "a"]
    \o Repeat("\t", trail)

TextLengths == (0..(MinLength + 1)) \cup ((MaxLength - 1)..(MaxLength + 1))

\* the values contentText may have in a JSON body, or none at all
BodyValues ==
    { [type |-> "undefined"], [type |-> "null"],
      [type |-> "number", value |-> 0], [type |-> "number", value |-> 1234567890],
      [type |-> "boolean", value |-> TRUE], [type |-> "object"] }
    \cup { [type |-> "string", value |-> PaddedText(lead, n, trail, inner)] :
             lead \in 0..MaxPad, n \in TextLengths, trail \in 0..MaxPad, inner \in BOOLEAN }

\* !contentText
Falsy(v) ==
    \/ v.type \in {"undefined", "null"}
    \/ v.type = "number" /\ v.value = 0
    \/ v.type = "boolean" /\ ~v.value
    \/ v.type = "string" /\ v.value = <<>>

validateUntrimmedLength(contentText) ==
    IF Falsy(contentText) \/ contentText.type # "string"
    THEN [status |-> 400, message |-> "Content text is required"]
    ELSE IF Len(contentText.value) < MinLength
         THEN [status |-> 400, message |-> "Content must be at least 10 characters"]
         ELSE IF Len(contentText.value) > MaxLength
         THEN [status |-> 400, message |-> "Content must be less than 2000 characters"]
         ELSE [status |-> 0, trimmed |-> trim(contentText.value)]

\* lines 13-27: the response of a rejected body, or the text that passed
validate(contentText) ==
    IF Falsy(contentText) \/ contentText.type # "string"
    THEN [status |-> 400, message |-> "Content text is required"]
    ELSE LET trimmed == trim(contentText.value)
         IN  IF Len(trimmed) < MinLength
             THEN [status |-> 400, message |-> "Content must be at least 10 characters"]
             ELSE IF Len(trimmed) > MaxLength
             THEN [status |-> 400, message |-> "Content must be less than 2000 characters"]
             ELSE [status |-> 0, trimmed |-> trimmed]

\* lines 8-30: the handler up to its await, on the first request served
PostAnalyze(contentText) ==
    /\ ret = NoCall
    /\ req.pc = "idle"
    /\ LET v == validate(contentText)
       IN  IF v.status = 400
           THEN /\ ret' = [ op |-> "postAnalyze", contentText |-> contentText,
                            status |-> 400, message |-> v.message, passed |-> Null ]
                /\ req' = req
           ELSE /\ ret' = [ op |-> "postAnalyze", contentText |-> contentText,
                            status |-> 0, message |-> "", passed |-> v.trimmed ]
                /\ req' \in Submitted(v.trimmed)
    /\ UNCHANGED <<cache, now, nextId>>

\* lines 30-38: analyzePost has settled and the handler responds
RouteResponds ==
    /\ ret.op = "postAnalyze"
    /\ ret.status = 0
    /\ req.pc \in {"done", "error"}
    /\ ret' = [ret EXCEPT !.status = IF req.pc = "done" THEN 200 ELSE 500,
                          !.message = req.error]
    /\ UNCHANGED <<cache, now, nextId, req>>

InitRoute == InitCache

NextRoute ==
    \/ \E contentText \in BodyValues : PostAnalyze(contentText)
    \/ \E outcome \in SearchOutcomes(0, 1) : SearchSettles(outcome)
    \/ \E llm \in Answers(req.sources) : AnalyzeSettles(llm, 1)
    \/ RouteResponds

SpecRoute == InitRoute /\ [][NextRoute]_vars

----------------------------------------------------------------------------
(* The route's claim, worded on the text as sent *)

Blank(c) == c \in {" ", "\t"}

HasNonBlank(text) == \E i \in 1..Len(text) : ~Blank(text[i])

FirstNonBlank(text) ==
    CHOOSE i \in 1..Len(text) : ~Blank(text[i]) /\ \A j \in 1..(i - 1) : Blank(text[j])

LastNonBlank(text) ==
    CHOOSE i \in 1..Len(text) : ~Blank(text[i]) /\ \A j \in (i + 1)..Len(text) : Blank(text[j])

\* the text without the blanks around it
Trimmed(text) ==
    IF ~HasNonBlank(text) THEN <<>>
    ELSE SubSeq(text, FirstNonBlank(text), LastNonBlank(text))

MustReject(contentText) ==
    \/ contentText.type # "string"
    \/ Len(Trimmed(contentText.value)) < 10
    \/ Len(Trimmed(contentText.value)) > 2000

\* C15: the analyze route answers 400 without invoking analyzePost exactly
\* when the claim text is missing, not a string, or its trimmed length is
\* below 10 or above 2000; otherwise the trimmed text is passed to analyzePost
C15_Validation ==
    ret.op = "postAnalyze" =>
        IF MustReject(ret.contentText)
        THEN ret.status = 400 /\ ret.passed = Null /\ req = Idle
        ELSE /\ ret.status # 400
             /\ ret.passed = Trimmed(ret.contentText.value)
             /\ req.pc # "idle"
             /\ req.contentText = ret.passed

\* a text of ten characters of which nine remain once trimmed was rejected
C15_Witness ==
    /\ ret.op = "postAnalyze"
    /\ ret.status = 400
    /\ ret.contentText.type = "string"
    /\ Len(ret.contentText.value) = 10
    /\ Len(Trimmed(ret.contentText.value)) = 9
    /\ req = Idle

----------------------------------------------------------------------------
(* Round trip through the cache *)

\* C16: get(r.contentText) right after set(r) returns every field given in r
\* (id, contentText, the scores, summary, sources, analyzedAt) with r's value,
\* and cached = true
C16_SetGetRoundTrip ==
    [][ (ret.op = "set" /\ ret'.op = "get" /\ ret'.text = ret.text /\ now' = now) =>
          LET r == SomeResult(ret.id, ret.text, ret.at)
              got == ret'.out
          IN  /\ got # Null
              /\ got.id = r.id
              /\ got.contentText = r.contentText
              /\ got.accuracyScore = r.accuracyScore
              /\ got.agreementScore = r.agreementScore
              /\ got.disagreementScore = r.disagreementScore
              /\ got.summary = r.summary
              /\ got.sources = r.sources
              /\ got.analyzedAt = r.analyzedAt
              /\ got.cached ]_vars

----------------------------------------------------------------------------
(* Two requests in flight.  Node runs one segment of analyzePost at a time and
   may turn to the other request at each await: req is the request whose
   segment runs next and ret holds the other one. *)

MaxConcurrentStores == 2

\* the event loop turns to the other request
Switch ==
    /\ req' = ret
    /\ ret' = req
    /\ UNCHANGED <<cache, now, nextId>>

\* the answers explored: every source supporting, or the summary call failing
ConcurrentAnswers(sources) ==
    LET full == AnswerAll(sources, [i \in 1..Len(sources) |-> "supporting"])
    IN  {full, [full EXCEPT !.summary = Failed]}

InitConcurrent ==
    /\ cache = <<>>
    /\ now = 0
    /\ nextId = 1
    /\ ret = Idle
    /\ req = Idle

NextConcurrent ==
    \/ \E text \in CacheTexts : Submit(text)
    \/ \E outcome \in SearchOutcomes(0, 1) : SearchSettles(outcome)
    \/ \E llm \in ConcurrentAnswers(req.sources) : AnalyzeSettles(llm, MaxConcurrentStores)
    \/ Switch

SpecConcurrent == InitConcurrent /\ [][NextConcurrent]_vars

\* the request produced its result itself and the cache holds it
Stored(r) ==
    /\ r.pc = "done"
    /\ ~r.result.cached
    /\ \E i \in 1..Len(cache) : IsEntry(r.result, cache[i])

InFlight(r) == r.pc \in {"searching", "analyzing"}

\* C17: of two requests for one claim text that overlap with no valid entry
\* in the cache, both miss, neither fails on storing, and each result is in
\* the cache under its own id, so that the key has two entries
C17_ConcurrentDuplicates ==
    /\ [](\A r \in {req, ret} :
            /\ r.error # StoreError
            /\ (r.pc = "done" /\ ~r.result.cached) => Stored(r))
    /\ []((Stored(req) /\ Stored(ret)) =>
            /\ req.result.id # ret.result.id
            /\ SameClaim(req.contentText, ret.contentText) =>
                  Cardinality(RowsFor(req.contentText)) >= 2)
    /\ [][ (InFlight(ret) /\ req.pc \in {"idle", "done", "error"} /\ req' # req
            /\ ret' = ret /\ FreshRowsFor(req'.contentText, now) = {})
              => req'.pc = "searching" ]_vars

\* two requests for one claim, worded differently, have both stored a result
C17_Witness ==
    /\ Stored(req)
    /\ Stored(ret)
    /\ req.contentText # ret.contentText
    /\ SameClaim(req.contentText, ret.contentText)
    /\ Len(cache) = 2
    /\ cache[1].id # cache[2].id

----------------------------------------------------------------------------
(* The orchestrator with the summary call answering any accuracy score *)

\* all sources given one label, with every answer to the summary call
AccuracyLabelled(sources) ==
    { [AnswerAll(sources, [i \in 1..Len(sources) |-> r]) EXCEPT !.summary = summary] :
        r \in Relevance, summary \in SummaryAnswers }

InitAccuracy == InitCache

NextAccuracy ==
    \/ \E text \in CacheTexts : Submit(text)
    \/ \E outcome \in SearchOutcomes(0, MaxSources) : SearchSettles(outcome)
    \/ \E llm \in AccuracyLabelled(req.sources) : AnalyzeSettles(llm, MaxAnalyses)

SpecAccuracy == InitAccuracy /\ [][NextAccuracy]_vars

\* C18: the accuracyScore of every result returned and of every cache entry
\* lies within 0..100
C18_AccuracyInRange ==
    /\ req.pc = "done" =>
          (req.result.accuracyScore >= 0 /\ req.result.accuracyScore <= 1000)
    /\ \A i \in 1..Len(cache) :
          cache[i].accuracy_score >= 0 /\ cache[i].accuracy_score <= 1000

----------------------------------------------------------------------------
(* The analyzer's percentages, worded on the label counts *)

\* how many sources the model labelled r in the call held in ret
Labelled(r) ==
    Cardinality({ <<k, i>> \in (DOMAIN ret.llm.batches) \X (1..MaxAnalyzed + 1) :
                    /\ i <= Len(ret.llm.batches[k].sources)
                    /\ ret.llm.batches[k].sources[i].relevance = r })

LabelledTotal == Labelled("supporting") + Labelled("contradicting") + Labelled("neutral")

\* 100 * count / total rounded to one decimal, in tenths
RoundedShare(count, total) ==
    CHOOSE x \in 0..1000 :
        2 * total * x <= 2000 * count + total /\ 2000 * count + total < 2 * total * (x + 1)

\* the three rounded values with the residual on the largest, agreement
\* before disagreement before neutral
LargestCorrected(a, d, n) ==
    LET residual == 1000 - (a + d + n)
    IN  IF a >= d /\ a >= n THEN <<a + residual, d, n>>
        ELSE IF d >= n THEN <<a, d + residual, n>>
        ELSE <<a, d, n + residual>>

\* C19: the percentages analyzeFactCheck returns are the three rounded
\* shares with the residual 100 - sum added to the largest of them
C19_ResidualOnLargest ==
    (AnalyzerCalled /\ ret.out.ok /\ LabelledTotal > 0) =>
        <<ret.out.agreementScore, ret.out.disagreementScore, ret.out.neutralScore>>
            = LargestCorrected(RoundedShare(Labelled("supporting"), LabelledTotal),
                               RoundedShare(Labelled("contradicting"), LabelledTotal),
                               RoundedShare(Labelled("neutral"), LabelledTotal))

----------------------------------------------------------------------------
(* The range of the percentages *)

InPercentRange(x) == x >= 0 /\ x <= 1000

\* C20: each of the three percentages of every result returned and of every
\* cache entry lies within 0..100
C20_ScoresInRange ==
    /\ req.pc = "done" =>
          /\ InPercentRange(req.result.agreementScore)
          /\ InPercentRange(req.result.disagreementScore)
          /\ InPercentRange(req.result.neutralScore)
    /\ \A i \in 1..Len(cache) :
          /\ InPercentRange(cache[i].agreement_score)
          /\ InPercentRange(cache[i].disagreement_score)
          /\ InPercentRange(cache[i].neutral_score)

----------------------------------------------------------------------------
(* The calls of one analysis *)

\* the provider call rejected, or its completion was empty or not JSON
BadAnswer(answer) == ~answer.ok \/ ("empty" \in DOMAIN answer /\ answer.empty)

\* C22: when a categorization call or the summary call fails at the provider,
\* or answers with an empty completion or with text that does not parse, the
\* analysis fails as a whole and nothing is returned
C22_CoreCallFailureFailsAnalysis ==
    (AnalyzerCalled /\ (\/ \E k \in DOMAIN ret.llm.batches : BadAnswer(ret.llm.batches[k])
                        \/ BadAnswer(ret.llm.summary)))
        => ~ret.out.ok

----------------------------------------------------------------------------
(* OpenAIService.analyzeFactCheck, call by call: ret holds the sources, the
   state of each provider call (not issued, pending, or its answer) and the
   value returned once the promise has settled. *)

MaxBatched == 3

NotIssued == [kind |-> "notIssued"]

Settled(call) == call \notin {NotIssued, Pending}

\* the answers of a categorization call: every source of the batch given one
\* label, or a failure
BatchAnswers(batch) ==
    { [ok |-> TRUE, sources |-> [i \in 1..Len(batch) |-> Categorized(batch[i], r)]] :
        r \in Relevance }
    \cup BatchFailures

AnalysisInFlight == ret.op = "analyzing" /\ ret.out = Null

\* lines 155-172: the batches are cut and every categorizeBatch call is started
CallAnalyze(sources) ==
    /\ ret = NoCall
    /\ ret' = [ op |-> "analyzing", sources |-> sources,
                llm |-> [ batches |-> [k \in 1..Len(Batches(sources)) |-> Pending],
                          summary |-> NotIssued,
                          translation |-> NotIssued ],
                out |-> Null ]
    /\ UNCHANGED <<cache, now, nextId, req>>

IssuesSummaryAfterFirstBatch(k, answer) ==
    /\ ret.op = "analyzing"
    /\ k \in DOMAIN ret.llm.batches
    /\ ret.llm.batches[k] = Pending
    /\ LET batches == [ret.llm.batches EXCEPT ![k] = answer]
       IN  IF ~AnalysisInFlight
           THEN ret' = [ret EXCEPT !.llm.batches = batches]
           ELSE IF ~answer.ok
           THEN ret' = [ret EXCEPT !.llm.batches = batches, !.out = Failed]
           ELSE IF ret.llm.summary = NotIssued
           THEN ret' = [ret EXCEPT !.llm.batches = batches, !.llm.summary = Pending]
           ELSE ret' = [ret EXCEPT !.llm.batches = batches]
    /\ UNCHANGED <<cache, now, nextId, req>>

\* lines 123-148 and 172-216: a categorization call settles.  A failure rejects
\* Promise.all and the catch clause rethrows (the other calls still settle,
\* unobserved); the last success resolves it, and the summary call is issued
BatchSettles(k, answer) ==
    /\ ret.op = "analyzing"
    /\ k \in DOMAIN ret.llm.batches
    /\ ret.llm.batches[k] = Pending
    /\ LET batches == [ret.llm.batches EXCEPT ![k] = answer]
       IN  IF ~AnalysisInFlight
           THEN ret' = [ret EXCEPT !.llm.batches = batches]
           ELSE IF ~answer.ok
           THEN ret' = [ret EXCEPT !.llm.batches = batches, !.out = Failed]
           ELSE IF \A j \in DOMAIN batches : batches[j] # Pending
           THEN ret' = [ret EXCEPT !.llm.batches = batches, !.llm.summary = Pending]
           ELSE ret' = [ret EXCEPT !.llm.batches = batches]
    /\ UNCHANGED <<cache, now, nextId, req>>

\* lines 206-255: the summary call settles; unless it failed, the translation
\* call is issued
SummarySettles(answer) ==
    /\ AnalysisInFlight
    /\ ret.llm.summary = Pending
    /\ ret' = IF ~answer.ok
              THEN [ret EXCEPT !.llm.summary = answer, !.out = Failed]
              ELSE [ret EXCEPT !.llm.summary = answer, !.llm.translation = Pending]
    /\ UNCHANGED <<cache, now, nextId, req>>

\* lines 245-272: the translation call settles and the call returns or throws
TranslationSettles(answer) ==
    /\ AnalysisInFlight
    /\ ret.llm.translation = Pending
    /\ ret' = [ret EXCEPT !.llm.translation = answer,
                          !.out = analyzeFactCheck(ScoreText, ret.sources,
                                                   [ret.llm EXCEPT !.translation = answer])]
    /\ UNCHANGED <<cache, now, nextId, req>>

InitCalls == InitCache

NextCalls ==
    \/ \E n \in 1..MaxBatched : CallAnalyze(FoundList(n))
    \/ \E k \in 1..NumBatches :
          \E answer \in BatchAnswers(IF ret.op = "analyzing" /\ k \in DOMAIN ret.llm.batches
                                     THEN Batches(ret.sources)[k] ELSE <<>>) :
             BatchSettles(k, answer)
    \/ \E answer \in {SummaryOk, Failed, Unparsable, EmptyCompletion} : SummarySettles(answer)
    \/ \E answer \in TranslationAnswers : TranslationSettles(answer)

SpecCalls == InitCalls /\ [][NextCalls]_vars

BatchCompleted(k) == Settled(ret.llm.batches[k]) /\ ret.llm.batches[k].ok

BatchFailed(k) == Settled(ret.llm.batches[k]) /\ ~ret.llm.batches[k].ok

\* C23: within one analysis the summary call is issued only once every
\* categorization call has completed, the translation call only once the
\* summary call has completed, and neither is made after a categorization call
\* has failed
C23_CallsInSequence ==
    /\ [](ret.op = "analyzing" =>
            /\ (ret.llm.summary # NotIssued) =>
                  \A k \in DOMAIN ret.llm.batches : BatchCompleted(k)
            /\ (ret.llm.translation # NotIssued) =>
                  (Settled(ret.llm.summary) /\ ret.llm.summary.ok)
            /\ (\E k \in DOMAIN ret.llm.batches : BatchFailed(k)) =>
                  (ret.llm.summary = NotIssued /\ ret.llm.translation = NotIssued))
    /\ [][(ret.op = "analyzing" /\ \E k \in DOMAIN ret.llm.batches : BatchFailed(k))
            => (ret.llm.summary' = NotIssued /\ ret.llm.translation' = NotIssued)]_vars

\* three categorization calls, then the summary call, then the translation
\* call have completed and the analysis was returned
C23_Witness ==
    /\ ret.op = "analyzing"
    /\ Len(ret.llm.batches) = 3
    /\ \A k \in DOMAIN ret.llm.batches : BatchCompleted(k)
    /\ Settled(ret.llm.summary)
    /\ Settled(ret.llm.translation)
    /\ ret.out # Null
    /\ ret.out.ok

----------------------------------------------------------------------------
(* The batches of analyzeFactCheck: ret holds the sources of a call, the
   batches cut from them, the answers and the value returned. *)

MaxBatchedSources == 12

\* the model labels every source, or leaves out the sources of the first batch
BatchingAnswers(sources) ==
    CountedAnswers(sources)
    \cup { [AnswerAll(sources, [i \in 1..Len(sources) |-> "neutral"])
              EXCEPT !.batches[1] = [ok |-> TRUE, sources |-> <<>>]] }

CallBatching(sources, llm) ==
    /\ ret = NoCall
    /\ ret' = [ op |-> "batching", sources |-> sources, batches |-> Batches(sources),
                llm |-> llm, out |-> analyzeFactCheck(ScoreText, sources, llm) ]
    /\ UNCHANGED <<cache, now, nextId, req>>

InitBatching == InitCache

NextBatching ==
    \E n \in 1..MaxBatchedSources :
        \E llm \in BatchingAnswers(FoundList(n)) : CallBatching(FoundList(n), llm)

SpecBatching == InitBatching /\ [][NextBatching]_vars

BatchingCalled == ret.op = "batching"

\* the number of sources in the batches before batch k
RECURSIVE SourcesBefore(_, _)
SourcesBefore(batches, k) ==
    IF k <= 1 THEN 0 ELSE SourcesBefore(batches, k - 1) + Len(batches[k - 1])

\* every categorization call returned one label for each source it was given
EveryBatchAnsweredInFull ==
    \A k \in DOMAIN ret.batches :
        /\ ret.llm.batches[k].ok
        /\ Len(ret.llm.batches[k].sources) = Len(ret.batches[k])

\* C24: the batches are non-empty slices that follow one another and make up
\* the source list in its order; when every batch is answered with one label
\* per source, the analysis returns as many categorized sources as it was given
C24_BatchingKeepsEverySource ==
    BatchingCalled =>
        /\ \A k \in DOMAIN ret.batches : Len(ret.batches[k]) >= 1
        /\ SourcesBefore(ret.batches, Len(ret.batches) + 1) = Len(ret.sources)
        /\ \A k \in DOMAIN ret.batches :
              \A i \in 1..Len(ret.batches[k]) :
                 ret.batches[k][i] = ret.sources[SourcesBefore(ret.batches, k) + i]
        /\ EveryBatchAnsweredInFull =>
              (ret.out.ok /\ Len(ret.out.sources) = Len(ret.sources))

\* seven sources, cut into batches of two, two, two and one, all labelled
C24_Witness ==
    /\ BatchingCalled
    /\ Len(ret.sources) = 7
    /\ Len(ret.batches) = 4
    /\ Len(ret.batches[4]) = 1
    /\ EveryBatchAnsweredInFull
    /\ Len(ret.out.sources) = 7

\* C25: a list of five sources or more is always cut into exactly five
\* batches, whatever its length
C25_AlwaysFiveBatches ==
    (BatchingCalled /\ Len(ret.sources) >= NumBatches) => Len(ret.batches) = NumBatches

----------------------------------------------------------------------------
(* One request of analyzePost with the analysis kept in view: ret holds the
   answers the language model gave and the value analyzeFactCheck returned. *)

MaxPostSources == 20

\* sources found on as many domains as there are letters, then on the same
\* domains again under other paths
PostFound(k) ==
    [ url |-> [ parses |-> TRUE,
                hostname |-> HostOf(((k - 1) % Len(Letters)) + 1),
                text |-> <<"/", Letters[((k - 1) \div Len(Letters)) + 1]>> ],
      title |-> Digits[((k - 1) % Len(Digits)) + 1],
      content |-> "",
      score |-> 100 - (k - 1) ]

PostFoundList(n) == [k \in 1..n |-> PostFound(k)]

PostOutcomes ==
    {Failed} \cup {[ok |-> TRUE, sources |-> PostFoundList(n)] : n \in {1, 2, 3, MaxPostSources}}

\* a url that no search returned
ForeignUrl == [parses |-> TRUE, hostname |-> <<"x", ".", "c">>, text |-> <<"/">>]

\* the model labels every source; or it leaves out the sources of the first
\* batch; or it answers the first source under a url it was not given
PostAnswers(sources) ==
    LET neutral == AnswerAll(sources, [i \in 1..Len(sources) |-> "neutral"])
    IN  CountedAnswers(sources)
        \cup { [neutral EXCEPT !.batches[1] = [ok |-> TRUE, sources |-> <<>>]],
               [neutral EXCEPT !.batches[1].sources[1].url = ForeignUrl],
               [neutral EXCEPT !.summary = Failed] }

\* lines 65-124, with the answers and the analysis kept in ret
AnalyzeSettlesInView(llm) ==
    /\ Analyzed(llm, 1)
    /\ ret' = [ op |-> "analyzePost", llm |-> llm,
                out |-> analyzeFactCheck(req.contentText, req.sources, llm) ]
    /\ UNCHANGED now

InitPost == InitCache

NextPost ==
    \/ req.pc = "idle" /\ Submit(ScoreText)
    \/ \E outcome \in PostOutcomes : SearchSettles(outcome)
    \/ \E llm \in (IF req.pc = "analyzing" THEN PostAnswers(req.sources) ELSE {}) :
          AnalyzeSettlesInView(llm)

SpecPost == InitPost /\ [][NextPost]_vars

\* the request in view ended with a freshly built result
FreshResult == ret.op = "analyzePost" /\ req.pc = "done"

\* the labels the categorization calls returned, by batch and position
PostLabels ==
    { <<k, i>> \in (DOMAIN ret.llm.batches) \X (1..MaxPostSources + 1) :
        i <= Len(ret.llm.batches[k].sources) }

PostLabelled(r) ==
    Cardinality({ l \in PostLabels : ret.llm.batches[l[1]].sources[l[2]].relevance = r })

PostTotal == Cardinality(PostLabels)

\* C26 as worded: each of the three percentages of a fresh result is
\* 100 * count / total rounded to one decimal, over all categorized sources
C26_ScoresAreRoundedShares ==
    (FreshResult /\ PostTotal > 0) =>
        /\ req.result.agreementScore = RoundedShare(PostLabelled("supporting"), PostTotal)
        /\ req.result.disagreementScore = RoundedShare(PostLabelled("contradicting"), PostTotal)
        /\ req.result.neutralScore = RoundedShare(PostLabelled("neutral"), PostTotal)

\* C26, amended: the percentages of a fresh result, returned and stored, are
\* computed from the label counts over all categorized sources, whatever the
\* display list keeps: agreement and disagreement are 100 * count / total
\* rounded to one decimal, and neutral is the rounded share of the neutral
\* labels plus what the three rounded shares miss of 100
C26_ScoresFromAllCategorized ==
    (FreshResult /\ PostTotal > 0) =>
        LET a == RoundedShare(PostLabelled("supporting"), PostTotal)
            d == RoundedShare(PostLabelled("contradicting"), PostTotal)
            n == RoundedShare(PostLabelled("neutral"), PostTotal)
        IN  /\ req.result.agreementScore = a
            /\ req.result.disagreementScore = d
            /\ req.result.neutralScore = n + (1000 - (a + d + n))
            /\ cache[Len(cache)].agreement_score = a
            /\ cache[Len(cache)].disagreement_score = d
            /\ cache[Len(cache)].neutral_score = n + (1000 - (a + d + n))

\* 3 supporting, 12 contradicting and 5 neutral of 20 give 15.0 / 60.0 / 25.0
\* while the display list keeps 3, 10 and 5 of them
C26_Witness ==
    /\ FreshResult
    /\ PostLabelled("supporting") = 3
    /\ PostLabelled("contradicting") = 12
    /\ PostLabelled("neutral") = 5
    /\ req.result.agreementScore = 150
    /\ req.result.disagreementScore = 600
    /\ req.result.neutralScore = 250
    /\ Len(req.result.sources) = 18

\* C27: totalSourcesRetrieved of a freshly built result, returned and stored,
\* is the number of sources the search returned for the request, whatever the
\* display list keeps and however many labels the analyzer returned
C27_TotalIsRetrievedCount ==
    FreshResult =>
        /\ req.result.totalSourcesRetrieved = Len(req.sources)
        /\ cache[Len(cache)].total_sources_retrieved = Len(req.sources)

\* twenty sources were retrieved, the analyzer returned labels for sixteen of
\* them and ten are displayed
C27_Witness ==
    /\ FreshResult
    /\ Len(req.sources) = 20
    /\ PostTotal = 16
    /\ Len(req.result.sources) = 10
    /\ req.result.totalSourcesRetrieved = 20

\* C28: the percentages of a freshly built result are the percentages
\* analyzeFactCheck returned, for every split of the labels over at least one
\* categorized source: analyzePost's own correction changes nothing
C28_RenormalizationIsIdentity ==
    (FreshResult /\ PostTotal > 0) =>
        /\ req.result.agreementScore = ret.out.agreementScore
        /\ req.result.disagreementScore = ret.out.disagreementScore
        /\ req.result.neutralScore = ret.out.neutralScore

\* one label of each kind of 3: the analyzer corrected neutral to 33.4 and
\* analyzePost, for which the largest score is the one to correct, left the
\* three scores alone
C28_Witness ==
    /\ FreshResult
    /\ PostLabelled("supporting") = 1
    /\ PostLabelled("contradicting") = 1
    /\ PostLabelled("neutral") = 1
    /\ ret.out.neutralScore = 334
    /\ req.result.agreementScore = 333
    /\ req.result.neutralScore = 334

\* the urls of the sources the search returned for the request
RetrievedUrls == {req.sources[i].url : i \in 1..Len(req.sources)}

\* C30: every source of a result's list, returned or stored, carries the url
\* of a source the search returned for that request
C30_DisplayedUrlsWereRetrieved ==
    FreshResult =>
        /\ \A i \in 1..Len(req.result.sources) : req.result.sources[i].url \in RetrievedUrls
        /\ \A i \in 1..Len(cache[Len(cache)].sources) :
              cache[Len(cache)].sources[i].url \in RetrievedUrls

----------------------------------------------------------------------------
(* Expiry and lookup *)

\* C29: deleteExpired changes the result of no lookup made at the same clock
\* time: for every claim text get may return after it exactly what it might
\* have returned before it, since every entry is either young enough for get
\* (age below seven days) or removed by deleteExpired (age of seven days or
\* more), and never both
C29_DeleteExpiredKeepsLookups ==
    [][ (ret'.op = "deleteOld" /\ now' = now) =>
          /\ \A text \in CacheTexts : get(cache', now, text) = get(cache, now, text)
          /\ \A i \in 1..Len(cache) :
                (now - cache[i].created_at < SevenDays)
                    <=> (\E j \in 1..Len(cache') : cache'[j] = cache[i])
          /\ \A i \in 1..Len(cache) :
                (now - cache[i].created_at < SevenDays)
                    <=> (\E text \in CacheTexts :
                            \E out \in get(<<cache[i]>>, now, text) : out # Null) ]_vars

\* deleteExpired has removed an entry that was seven days old and the lookup of
\* its claim text still returns the younger entry stored for it
C29_Witness ==
    /\ ret.op = "deleteOld"
    /\ ret.at = now
    /\ ret.out.changes = 1
    /\ Len(cache) = 1
    /\ now - cache[1].created_at < SevenDays
    /\ get(cache, now, cache[1].content_text) # {Null}

====
